---- MODULE Spec2Model ----
(***************************************************************************)
(* Receipt ingestion pipeline of main.py: the startup folder check, the    *)
(* watchdog observer with its debounce, process_receipt with its catch-all *)
(* handler, and the interrupt handling of the main thread.                 *)
(***************************************************************************)
EXTENDS Integers, Sequences, FiniteSets, TLC

\* ------------------------------------------------------------------------
\* Bounds of the model
\* ------------------------------------------------------------------------

\* Number of directory entries an external actor may ever put into IN_FOLDER.
NumEntries == 2

\* Number of external calls (upload/generate, append_rows, shutil.move) that
\* may fail during one run.
MaxFaults == 2

Entries == 1..NumEntries

\* ------------------------------------------------------------------------
\* Folders (main.py lines 25-27) and where an entry may be
\* ------------------------------------------------------------------------
IN_FOLDER == "receipts_in"
PROCESSED_FOLDER == "receipts_processed"
ERROR_FOLDER == "receipts_error"
\* not yet dropped by the external actor
Outside == "outside"
\* overwritten by a later move onto the same destination path
Gone == "gone"

Places == {Outside, IN_FOLDER, PROCESSED_FOLDER, ERROR_FOLDER, Gone}

\* ------------------------------------------------------------------------
\* The entries the external actor may drop: name and kind.  Every entry of
\* a run is one item of a catalogue that repeats with period 5, so that it
\* is defined for every number: a.pdf, b.PDF, a second a.pdf, c.txt and a
\* directory d.Pdf.
\* ------------------------------------------------------------------------
VARIABLE kind       \* the catalogue number of each entry, fixed during a run

Catalogue == {1, 2, 3, 4, 5}

EntryStem(e) ==
    CASE kind[e] % 5 = 1 -> "a"
      [] kind[e] % 5 = 2 -> "b"
      [] kind[e] % 5 = 3 -> "a"
      [] kind[e] % 5 = 4 -> "c"
      [] OTHER           -> "d"

EntryExt(e) ==
    CASE kind[e] % 5 = 1 -> ".pdf"
      [] kind[e] % 5 = 2 -> ".PDF"
      [] kind[e] % 5 = 3 -> ".pdf"
      [] kind[e] % 5 = 4 -> ".txt"
      [] OTHER           -> ".Pdf"

\* os.path.basename of the entry: the pair (stem, extension)
EntryName(e) == <<EntryStem(e), EntryExt(e)>>

\* event.is_directory / os.path.isdir of the entry
EntryIsDir(e) == kind[e] % 5 = 0

\* str.lower() on the extensions that occur
Lower(s) ==
    CASE s = ".PDF" -> ".pdf"
      [] s = ".Pdf" -> ".pdf"
      [] OTHER      -> s

\* name.lower().endswith('.pdf')
EndsWithPdf(e) == Lower(EntryExt(e)) = ".pdf"

\* the filter of the startup listing (line 118): extension only
StartupAccepts(e) == EndsWithPdf(e)

\* the filter of on_created (line 109)
WatcherAccepts(e) == ~EntryIsDir(e) /\ EndsWithPdf(e)

\* ------------------------------------------------------------------------
\* JSON values as json.loads returns them
\* ------------------------------------------------------------------------
JStr(s)  == [type |-> "string", s |-> s]
JNum(s)  == [type |-> "number", s |-> s]
JNull    == [type |-> "null",   s |-> "None"]
JObj(f)  == [type |-> "object", members |-> f]
JArr(q)  == [type |-> "array",  elems |-> q]

\* the default "" of the .get calls
EmptyString == JStr("")
\* the defaults {} and [] of lines 77-78
EmptyDict == JObj(<<>>)
EmptyList == JArr(<<>>)

\* response.text: either text json.loads rejects or the text of a value
BadText     == [valid |-> FALSE]
TextOf(v)   == [valid |-> TRUE, value |-> v]

FullMeta ==
    JObj([k \in {"store", "date", "total_receipt_cost"} |->
            CASE k = "store" -> JStr("X")
              [] k = "date"  -> JStr("2024-05-01")
              [] OTHER       -> JNum("120.50")])

\* metadata without the date
PartMeta ==
    JObj([k \in {"store", "total_receipt_cost"} |->
            CASE k = "store" -> JStr("X")
              [] OTHER       -> JNum("120.50")])

Milk ==
    JObj([k \in {"product_name", "quantity_or_weight", "item_total_price",
                 "category", "calories_per_100g"} |->
            CASE k = "product_name"       -> JStr("Mjolk")
              [] k = "quantity_or_weight" -> JStr("1L")
              [] k = "item_total_price"   -> JNum("15.00")
              [] k = "category"           -> JStr("Dairy")
              [] OTHER                    -> JNum("42")])

\* a non-food item: calories null, category missing
Bag ==
    JObj([k \in {"product_name", "quantity_or_weight", "item_total_price",
                 "calories_per_100g"} |->
            CASE k = "product_name"       -> JStr("Barkasse")
              [] k = "quantity_or_weight" -> JStr("1")
              [] k = "item_total_price"   -> JNum("3.00")
              [] OTHER                    -> JNull])

Doc(meta, items) ==
    JObj([k \in {"receipt_metadata", "items"} |->
            IF k = "receipt_metadata" THEN meta ELSE items])

\* The response texts the extraction service may return.
Responses ==
    << BadText,                                                 \* 1 not JSON
       TextOf(JArr(<<Milk>>)),                                  \* 2 a JSON array
       TextOf(Doc(FullMeta, JArr(<<Milk, Bag>>))),              \* 3 two items
       TextOf(Doc(FullMeta, EmptyList)),                        \* 4 no items
       TextOf(JObj([k \in {"receipt_metadata"} |-> FullMeta])), \* 5 no "items"
       TextOf(JObj([k \in {"items"} |-> JArr(<<Bag>>)])),       \* 6 no metadata
       TextOf(Doc(PartMeta, JArr(<<Bag, Milk>>))),              \* 7 date missing
       TextOf(Doc(FullMeta, JNull)),                            \* 8 items null
       TextOf(Doc(FullMeta, JArr(<<Milk, JStr("x")>>))) >>      \* 9 item not a dict

ResponseIds == DOMAIN Responses

\* ------------------------------------------------------------------------
\* Lines 76-92: parse and projection.  A result is either Raised or
\* Returned(value).
\* ------------------------------------------------------------------------
Raised == [raised |-> TRUE]
Returned(v) == [raised |-> FALSE, value |-> v]

\* a parse that answers {} for text that is not JSON
JsonLoadsLenient(text) == IF text.valid THEN Returned(text.value) ELSE Returned(EmptyDict)

\* json.loads(text)
JsonLoads(text) == IF text.valid THEN Returned(text.value) ELSE Raised

\* d[key]: KeyError when the key is missing
DictGetStrict(d, key, default) ==
    IF d.type # "object" THEN Raised
    ELSE IF key \in DOMAIN d.members THEN Returned(d.members[key])
    ELSE Raised

\* d.get(key, default): AttributeError unless d is a dict
DictGet(d, key, default) ==
    IF d.type # "object" THEN Raised
    ELSE IF key \in DOMAIN d.members THEN Returned(d.members[key])
    ELSE Returned(default)

\* what "for item in v" iterates over: TypeError for None and numbers; a
\* dict yields its keys and a string its characters (each a string)
Iterate(v) ==
    CASE v.type = "array"  -> Returned(v.elems)
      [] v.type = "object" ->
            Returned(IF DOMAIN v.members = {} THEN <<>> ELSE <<JStr("key")>>)
      [] v.type = "string" ->
            Returned(IF v.s = "" THEN <<>> ELSE <<JStr("char")>>)
      [] OTHER             -> Raised

\* the order of the cells of one row (lines 83-90): TRUE = taken from meta
RowFields ==
    << <<TRUE,  "date">>,
       <<TRUE,  "store">>,
       <<FALSE, "product_name">>,
       <<FALSE, "category">>,
       <<FALSE, "calories_per_100g">>,
       <<FALSE, "quantity_or_weight">>,
       <<FALSE, "item_total_price">>,
       <<TRUE,  "total_receipt_cost">> >>

\* lines 82-91: the cells, each the result of a .get
RowCells(meta, item) ==
    [i \in DOMAIN RowFields |->
        DictGet(IF RowFields[i][1] THEN meta ELSE item, RowFields[i][2], EmptyString)]

\* lines 82-91 for one item
MakeRow(meta, item) ==
    LET cells == RowCells(meta, item) IN
    IF \E i \in DOMAIN cells : cells[i].raised THEN Raised
    ELSE Returned([i \in DOMAIN cells |-> cells[i].value])

\* rows_to_add is reset inside the loop: only the last row is kept
KeepLastRow(meta, items) ==
    LET made == [i \in DOMAIN items |-> MakeRow(meta, items[i])] IN
    IF \E i \in DOMAIN made : made[i].raised THEN Raised
    ELSE Returned(IF made = <<>> THEN <<>> ELSE <<made[Len(made)].value>>)

\* each row is put in front of rows_to_add: the items come out reversed
ReversedRows(meta, items) ==
    LET made == [i \in DOMAIN items |-> MakeRow(meta, items[i])] IN
    IF \E i \in DOMAIN made : made[i].raised THEN Raised
    ELSE Returned([i \in DOMAIN made |-> made[Len(made) + 1 - i].value])

\* lines 80-92: rows_to_add, one row per item in order
BuildRows(meta, items) ==
    LET made == [i \in DOMAIN items |-> MakeRow(meta, items[i])] IN
    IF \E i \in DOMAIN made : made[i].raised THEN Raised
    ELSE Returned([i \in DOMAIN made |-> made[i].value])

\* lines 76-92 as a whole, from response.text to rows_to_add
ParseAndProject(text) ==
    LET data == JsonLoads(text) IN
    IF data.raised THEN Raised ELSE
    LET meta == DictGet(data.value, "receipt_metadata", EmptyDict)
        items == DictGet(data.value, "items", EmptyList) IN
    IF meta.raised \/ items.raised THEN Raised ELSE
    LET it == Iterate(items.value) IN
    IF it.raised THEN Raised ELSE BuildRows(meta.value, it.value)

\* ------------------------------------------------------------------------
\* State
\* ------------------------------------------------------------------------
VARIABLES
    loc,            \* where each entry is: a folder, Outside or Gone
    mainpc,         \* position of the main thread (lines 113-147)
    existing_pdfs,  \* the startup listing (line 118)
    next_pdf,       \* index of the next element of the loop of line 124
    observer,       \* state of the watchdog observer thread
    event_queue,    \* creation events not yet dispatched to on_created
    call,           \* per thread: the process_receipt call it is in
    sink,           \* the sheet: the batches appended by append_rows
    hist,           \* per entry: what happened to its processing attempts
    interrupted,    \* the interrupt signal has been delivered
    faults,         \* number of failed external calls so far
    atStart,        \* the entries that were in IN_FOLDER at process start
    created         \* the entries of all creation events so far, in order

vars == <<loc, mainpc, existing_pdfs, next_pdf, observer, event_queue, call,
          sink, hist, interrupted, faults, atStart, created, kind>>

Threads == {"main", "obs"}

Idle == [step |-> "idle", file |-> 0, rows |-> <<>>]

NoHist == [status |-> "none", attempts |-> 0, resp |-> 0, failed |-> {},
           commit |-> "none"]

\* the process is running: not exited, not terminated by an uncaught
\* exception ("crashed") or an uncaught KeyboardInterrupt ("killed")
Alive == mainpc \notin {"exit", "crashed", "killed"}

SameName(e, f) == EntryName(e) = EntryName(f)

\* all orders of a finite set: os.listdir returns an arbitrary order
Perms(S) ==
    {q \in [1..Cardinality(S) -> S] : \A i, j \in DOMAIN q : i # j => q[i] # q[j]}

\* the state at process start, the kinds of the entries being given
Start ==
    /\ loc \in [Entries -> {Outside, IN_FOLDER}]
    /\ \A e, f \in Entries :
          (e # f /\ loc[e] = IN_FOLDER /\ loc[f] = IN_FOLDER) => ~SameName(e, f)
    /\ mainpc = "list"
    /\ existing_pdfs = <<>>
    /\ next_pdf = 1
    /\ observer = "unstarted"
    /\ event_queue = <<>>
    /\ call = [t \in Threads |-> Idle]
    /\ sink = <<>>
    /\ hist = [e \in Entries |-> NoHist]
    /\ interrupted = FALSE
    /\ faults = 0
    /\ atStart = {e \in Entries : loc[e] = IN_FOLDER}
    /\ created = <<>>

\* the entries are the first items of the catalogue: receipts a.pdf, b.PDF
Init ==
    /\ kind = [e \in Entries |-> e]
    /\ Start

\* the entries are any items of the catalogue: receipts of the same name,
\* files that are not receipts, directories
InitAnyKind ==
    /\ kind \in [Entries -> Catalogue]
    /\ Start

\* ------------------------------------------------------------------------
\* The external actor: a file or directory is created in IN_FOLDER.  The
\* running observer records a creation event for it (line 137); before
\* observer.start() nothing watches the folder, and after observer.stop()
\* or the end of the observer thread no event is dispatched any more.
\* ------------------------------------------------------------------------
Drop(e) ==
    /\ Alive
    /\ loc[e] = Outside
    /\ \A f \in Entries : loc[f] = IN_FOLDER => ~SameName(e, f)
    /\ loc' = [loc EXCEPT ![e] = IN_FOLDER]
    /\ event_queue' = IF observer = "running" THEN Append(event_queue, e)
                      ELSE event_queue
    /\ created' = IF observer = "running" THEN Append(created, e) ELSE created
    /\ UNCHANGED <<mainpc, existing_pdfs, next_pdf, observer, call, sink, hist,
                   interrupted, faults, atStart, kind>>

\* ------------------------------------------------------------------------
\* process_receipt (lines 58-104), run by thread t
\* ------------------------------------------------------------------------

\* an external call may fail for a reason of its own
MayFail == faults < MaxFaults

\* shutil.move(src, dst): a file already at the destination path is
\* replaced; a directory cannot replace anything
MoveBlocked(e, place) ==
    EntryIsDir(e) /\ \E f \in Entries : f # e /\ loc[f] = place /\ SameName(e, f)

\* the file is copied, the source is left where it was
CopyInto(e, place) == loc

MoveInto(e, place) ==
    [f \in Entries |->
        IF f = e THEN place
        ELSE IF loc[f] = place /\ SameName(e, f) /\ ~EntryIsDir(f) THEN Gone
        ELSE loc[f]]

\* line 58: the call starts
Begin(t, e) ==
    /\ call' = [call EXCEPT ![t] = [step |-> "extract", file |-> e, rows |-> <<>>]]
    /\ hist' = [hist EXCEPT ![e].status = "running", ![e].attempts = @ + 1]

\* the call returns to its caller
Return(t, e, place) ==
    /\ call' = [call EXCEPT ![t] = Idle]
    /\ hist' = [hist EXCEPT ![e].status = "returned", ![e].commit = place]
    /\ UNCHANGED <<mainpc, observer>>

\* the failed move is tried again
RetryMove(t, e, what, h) ==
    /\ call' = [call EXCEPT ![t].step = "except"]
    /\ hist' = [h EXCEPT ![e].failed = @ \cup {what}]
    /\ UNCHANGED <<mainpc, observer>>

\* An exception leaves process_receipt.  In the main thread it is uncaught
\* (lines 124-125 have no handler) and ends the process; in the observer
\* thread it ends that thread.
Raise(t, e, what, h) ==
    /\ call' = [call EXCEPT ![t] = Idle]
    /\ hist' = [h EXCEPT ![e].status = "raised", ![e].failed = @ \cup {what}]
    /\ mainpc' = IF t = "main" THEN "crashed" ELSE mainpc
    /\ observer' = IF t = "obs" THEN "dead" ELSE observer

\* the handler is missing: the exception leaves the call
Uncaught(t, e, what, h) == Raise(t, e, what, h)

\* the exception is dropped and the call goes on to line 100
Swallowed(t, e, what, h) ==
    /\ call' = [call EXCEPT ![t].step = "move"]
    /\ hist' = [h EXCEPT ![e].failed = @ \cup {what}]
    /\ UNCHANGED <<mainpc, observer>>

\* the failed attempt is started again
Retried(t, e, what, h) ==
    /\ call' = [call EXCEPT ![t].step = "extract"]
    /\ hist' = [h EXCEPT ![e].failed = @ \cup {what}, ![e].attempts = @ + 1]
    /\ UNCHANGED <<mainpc, observer>>

\* lines 62 and 102: an exception raised in the try body is caught by
\* "except Exception" and control goes to the handler (lines 103-104)
Caught(t, e, what, h) ==
    /\ call' = [call EXCEPT ![t].step = "except"]
    /\ hist' = [h EXCEPT ![e].failed = @ \cup {what}]
    /\ UNCHANGED <<mainpc, observer>>

\* the guard of line 94 is missing
AlwaysAppend(rows) == "append"

\* line 94: "if rows_to_add"
AfterProject(rows) == IF rows # <<>> THEN "append" ELSE "move"

\* lines 75-92 for each response text the service may return
Projected == [r \in ResponseIds |-> ParseAndProject(Responses[r])]

\* lines 64-92: upload, generate_content, json.loads and the projection
Extract(t) ==
    LET e == call[t].file IN
    /\ Alive
    /\ call[t].step = "extract"
    /\ \/ \* upload or generate_content raises
          /\ \/ MayFail /\ faults' = faults + 1
             \/ (loc[e] # IN_FOLDER \/ EntryIsDir(e)) /\ faults' = faults
          /\ Caught(t, e, "extract", hist)
       \/ \* the service answers with some text
          /\ loc[e] = IN_FOLDER /\ ~EntryIsDir(e)
          /\ faults' = faults
          /\ \E r \in ResponseIds :
                LET res == Projected[r]
                    h == [hist EXCEPT ![e].resp = r] IN
                IF res.raised
                THEN Caught(t, e, "parse", h)
                ELSE /\ call' = [call EXCEPT ![t].step = AfterProject(res.value),
                                             ![t].rows = res.value]
                     /\ hist' = h
                     /\ UNCHANGED <<mainpc, observer>>
    /\ UNCHANGED <<loc, existing_pdfs, next_pdf, event_queue, sink, interrupted,
                   atStart, created, kind>>

\* line 96: one batch, the rows in the order of rows_to_add
AppendRows(t) == Append(sink, [file |-> call[t].file, rows |-> call[t].rows])

\* lines 95-97: sheet.append_rows(rows_to_add)
AppendToSheet(t) ==
    LET e == call[t].file IN
    /\ Alive
    /\ call[t].step = "append"
    /\ \/ /\ sink' = AppendRows(t)
          /\ call' = [call EXCEPT ![t].step = "move"]
          /\ UNCHANGED <<hist, faults, mainpc, observer>>
       \/ /\ MayFail
          /\ faults' = faults + 1
          /\ Caught(t, e, "append", hist)
          /\ sink' = sink
    /\ UNCHANGED <<loc, existing_pdfs, next_pdf, event_queue, interrupted,
                   atStart, created, kind>>

\* line 100: shutil.move to PROCESSED_FOLDER
MoveProcessed(t) ==
    LET e == call[t].file IN
    /\ Alive
    /\ call[t].step = "move"
    /\ \/ /\ loc[e] = IN_FOLDER /\ ~MoveBlocked(e, PROCESSED_FOLDER)
          /\ loc' = MoveInto(e, PROCESSED_FOLDER)
          /\ Return(t, e, PROCESSED_FOLDER)
          /\ faults' = faults
       \/ /\ \/ MayFail /\ faults' = faults + 1
             \/ (loc[e] # IN_FOLDER \/ MoveBlocked(e, PROCESSED_FOLDER))
                /\ faults' = faults
          /\ Caught(t, e, "moveP", hist)
          /\ loc' = loc
    /\ UNCHANGED <<existing_pdfs, next_pdf, event_queue, sink, interrupted,
                   atStart, created, kind>>

\* lines 102-104: the handler, shutil.move to ERROR_FOLDER; an exception
\* raised here has no handler
MoveError(t) ==
    LET e == call[t].file IN
    /\ Alive
    /\ call[t].step = "except"
    /\ \/ /\ loc[e] = IN_FOLDER /\ ~MoveBlocked(e, ERROR_FOLDER)
          /\ loc' = MoveInto(e, ERROR_FOLDER)
          /\ Return(t, e, ERROR_FOLDER)
          /\ faults' = faults
       \/ /\ \/ MayFail /\ faults' = faults + 1
             \/ (loc[e] # IN_FOLDER \/ MoveBlocked(e, ERROR_FOLDER))
                /\ faults' = faults
          /\ Raise(t, e, "moveE", hist)
          /\ loc' = loc
    /\ UNCHANGED <<existing_pdfs, next_pdf, event_queue, sink, interrupted,
                   atStart, created, kind>>

\* ------------------------------------------------------------------------
\* The main thread (lines 113-147)
\* ------------------------------------------------------------------------

\* the lists os.listdir and the filter of line 118 may produce for the
\* present contents of IN_FOLDER: os.listdir returns the names in arbitrary
\* order and the code does not sort them
Listings == Perms({e \in Entries : loc[e] = IN_FOLDER /\ StartupAccepts(e)})

\* line 118: the listing, filtered by extension
ListIncoming ==
    /\ mainpc = "list"
    /\ existing_pdfs' \in Listings
    /\ next_pdf' = 1
    /\ mainpc' = "loop"
    /\ UNCHANGED <<loc, observer, event_queue, call, sink, hist, interrupted,
                   faults, atStart,
                   created, kind>>

\* lines 124-125: the next iteration calls process_receipt
StartupNext ==
    /\ mainpc = "loop"
    /\ call["main"].step = "idle"
    /\ next_pdf <= Len(existing_pdfs)
    /\ Begin("main", existing_pdfs[next_pdf])
    /\ next_pdf' = next_pdf + 1
    /\ UNCHANGED <<loc, mainpc, existing_pdfs, observer, event_queue, sink,
                   interrupted, faults, atStart,
                   created, kind>>

\* the observer is started before the startup loop
BeforeStartupLoop == mainpc = "loop"

\* the loop of line 124 is over (or line 120 found the listing empty)
StartupFinished ==
    /\ mainpc = "loop"
    /\ call["main"].step = "idle"
    /\ next_pdf > Len(existing_pdfs)

\* lines 135-138: the observer is created and started after the startup loop
ObserverStart ==
    /\ StartupFinished
    /\ observer = "unstarted"
    /\ observer' = "running"
    /\ UNCHANGED <<loc, mainpc, existing_pdfs, next_pdf, event_queue, call, sink,
                   hist, interrupted, faults, atStart,
                   created, kind>>

\* lines 140-142: the main thread enters the try block and sleeps
EnterWatch ==
    /\ StartupFinished
    /\ observer # "unstarted"
    /\ mainpc' = "watch"
    /\ UNCHANGED <<loc, existing_pdfs, next_pdf, observer, event_queue, call,
                   sink, hist, interrupted, faults, atStart,
                   created, kind>>

\* The interrupt signal: KeyboardInterrupt is raised in the main thread.
\* Inside the try block (line 143) it is caught and observer.stop() is
\* called; anywhere else it is uncaught ("except Exception" of line 102 does
\* not catch it) and the process ends, with what the main thread, or the
\* daemon observer thread, was doing left undone.
Interrupt ==
    /\ Alive
    /\ ~interrupted
    /\ interrupted' = TRUE
    /\ IF mainpc = "watch"
       THEN /\ mainpc' = "join"
            /\ observer' = IF observer = "running" THEN "stopping" ELSE observer
            /\ hist' = hist
       ELSE /\ mainpc' = "killed"
            /\ observer' = observer
            /\ hist' = [e \in Entries |->
                          IF hist[e].status = "running"
                          THEN [hist[e] EXCEPT !.status = "aborted"]
                          ELSE hist[e]]
    /\ UNCHANGED <<loc, existing_pdfs, next_pdf, event_queue, call, sink, faults,
                   atStart, created, kind>>

\* line 147: observer.join() returns once the observer thread has ended
Join ==
    /\ mainpc = "join"
    /\ observer \in {"stopped", "dead"}
    /\ mainpc' = "exit"
    /\ UNCHANGED <<loc, existing_pdfs, next_pdf, observer, event_queue, call,
                   sink, hist, interrupted, faults, atStart,
                   created, kind>>

\* ------------------------------------------------------------------------
\* The observer thread: dispatches the queued events one at a time
\* ------------------------------------------------------------------------

\* the newest event is dispatched first
NewestEvent(q) == [event |-> q[Len(q)], rest |-> SubSeq(q, 1, Len(q) - 1)]

\* the observer dispatches the events in the order they were recorded
NextEvent(q) == [event |-> Head(q), rest |-> Tail(q)]

\* lines 108-110: on_created filters the event and starts the debounce sleep
OnCreated ==
    /\ Alive
    /\ observer = "running"
    /\ call["obs"].step = "idle"
    /\ event_queue # <<>>
    /\ event_queue' = NextEvent(event_queue).rest
    /\ call' = IF WatcherAccepts(NextEvent(event_queue).event)
               THEN [call EXCEPT !["obs"] =
                        [step |-> "sleep", file |-> NextEvent(event_queue).event,
                         rows |-> <<>>]]
               ELSE call
    /\ UNCHANGED <<loc, mainpc, existing_pdfs, next_pdf, observer, sink, hist,
                   interrupted, faults, atStart, created, kind>>

\* lines 110-111: the sleep is over, process_receipt is called
AfterSleep ==
    /\ Alive
    /\ observer \in {"running", "stopping"}
    /\ call["obs"].step = "sleep"
    /\ Begin("obs", call["obs"].file)
    /\ UNCHANGED <<loc, mainpc, existing_pdfs, next_pdf, observer, event_queue,
                   sink, interrupted, faults, atStart,
                   created, kind>>

\* observer.stop() was called (line 144): the thread ends after the handler
\* it is in has returned
ObserverExit ==
    /\ Alive
    /\ observer = "stopping"
    /\ call["obs"].step = "idle"
    /\ observer' = "stopped"
    /\ UNCHANGED <<loc, mainpc, existing_pdfs, next_pdf, event_queue, call, sink,
                   hist, interrupted, faults, atStart,
                   created, kind>>

\* a step of process_receipt in the main thread
MainCall ==
    /\ mainpc = "loop"
    /\ \/ Extract("main")
       \/ AppendToSheet("main")
       \/ MoveProcessed("main")
       \/ MoveError("main")

\* a step of process_receipt in the observer thread
ObsCall ==
    /\ observer \in {"running", "stopping"}
    /\ \/ Extract("obs")
       \/ AppendToSheet("obs")
       \/ MoveProcessed("obs")
       \/ MoveError("obs")

MainStep ==
    \/ ListIncoming
    \/ StartupNext
    \/ MainCall
    \/ ObserverStart
    \/ EnterWatch
    \/ Join

ObsStep ==
    \/ OnCreated
    \/ AfterSleep
    \/ ObsCall
    \/ ObserverExit

Next ==
    \/ \E e \in Entries : Drop(e)
    \/ Interrupt
    \/ MainStep
    \/ ObsStep

Spec == Init /\ [][Next]_vars

\* Both threads are scheduled and every external call returns.
FairSpec == Spec /\ WF_vars(MainStep) /\ WF_vars(ObsStep)

\* The same program on entries of any kind.
SpecAnyKind == InitAnyKind /\ [][Next]_vars

TypeOK ==
    /\ loc \in [Entries -> Places]
    /\ mainpc \in {"list", "loop", "watch", "join", "exit", "crashed", "killed"}
    /\ observer \in {"unstarted", "running", "stopping", "stopped", "dead"}
    /\ next_pdf \in 1..(NumEntries + 1)
    /\ interrupted \in BOOLEAN
    /\ faults \in 0..MaxFaults
    /\ kind \in [Entries -> Catalogue]
    /\ \A i \in DOMAIN created : created[i] \in Entries

\* ------------------------------------------------------------------------
\* Vocabulary of the properties
\* ------------------------------------------------------------------------

\* process_receipt begins for e in this step
Begins(e) == hist'[e].attempts > hist[e].attempts

\* process_receipt returns normally for e in this step
Returns(e) == hist[e].status # "returned" /\ hist'[e].status = "returned"

\* process_receipt was started for e and is over, normally or by raising
Finished(e) == hist[e].status \in {"returned", "raised"}

\* the entries of the startup listing
Listed == {existing_pdfs[i] : i \in DOMAIN existing_pdfs}

\* the threads that are inside process_receipt
InFlight == {t \in Threads : call[t].step \in {"extract", "append", "move", "except"}}

\* the append_rows calls made for e
BatchesOf(e) == SelectSeq(sink, LAMBDA b : b.file = e)

\* the steps 1-3 of the orchestrator: extraction, projection, sink append
StepFailed(e) == hist[e].failed \cap {"extract", "parse", "append"} # {}

\* the document json.loads returned for e, when the service answered
HasDoc(e) == hist[e].resp # 0 /\ Responses[hist[e].resp].valid
DocOf(e) == Responses[hist[e].resp].value

\* ------------------------------------------------------------------------
\* C1
\* ------------------------------------------------------------------------

\* C1 as claimed: once process_receipt has finished for a file, whatever the
\* outcomes of the extraction, the parse, the append and the two moves, the
\* file is in exactly one of Processed and Error and not in Incoming.
C1_AnyOutcomeTerminal ==
    \A e \in Entries :
        (Finished(e) /\ ~EntryIsDir(e)) => loc[e] \in {PROCESSED_FOLDER, ERROR_FOLDER}

\* C1 amended: whenever process_receipt returns normally for a file, the
\* file was in Incoming and is moved by that step into exactly one of
\* Processed and Error, the one recorded as its commit, and a file whose
\* call has returned is never in Incoming again; a call that ends by raising
\* (the move to Error failed) leaves its file where it was.
C1_ReturnedTerminal ==
    [][\A e \in Entries :
          /\ Returns(e) =>
                /\ loc[e] = IN_FOLDER
                /\ loc'[e] \in {PROCESSED_FOLDER, ERROR_FOLDER}
                /\ loc'[e] = hist'[e].commit
          /\ hist[e].status = "returned" => loc'[e] \notin {IN_FOLDER, Outside}
          /\ (hist[e].status # "raised" /\ hist'[e].status = "raised") =>
                loc'[e] = loc[e]]_vars

\* a call in which the move to Processed failed has returned with its file
\* quarantined
C1_Witness ==
    \E e \in Entries :
        /\ hist[e].status = "returned"
        /\ "moveP" \in hist[e].failed
        /\ loc[e] = ERROR_FOLDER

\* ------------------------------------------------------------------------
\* C2
\* ------------------------------------------------------------------------

\* C2 as claimed: process_receipt never raises to its caller, whatever fails
\* (the move to Error included): no call ends by raising, the process is not
\* terminated by an exception and the observer thread is not ended by one.
C2_NeverRaises ==
    /\ \A e \in Entries : hist[e].status # "raised"
    /\ mainpc # "crashed"
    /\ observer # "dead"

\* C2 amended: process_receipt raises to its caller only when the move to
\* Error itself failed; a failure of the upload, the generation, the parse,
\* the projection, the append or the move to Processed never leaves the
\* call, never terminates the process and never ends the observer thread,
\* and the main thread goes on to the observer only after process_receipt
\* was called for every file of the startup listing.
C2_RaisesOnlyFromHandler ==
    /\ \A e \in Entries : hist[e].status = "raised" => "moveE" \in hist[e].failed
    /\ (mainpc = "crashed" \/ observer = "dead") =>
          \E e \in Entries : hist[e].status = "raised" /\ "moveE" \in hist[e].failed
    /\ \A e \in Entries :
          (hist[e].failed # {} /\ "moveE" \notin hist[e].failed) =>
              hist[e].status \in {"running", "returned", "aborted"}
    /\ mainpc \in {"watch", "join", "exit"} =>
          \A e \in Listed : hist[e].attempts > 0

\* a call in which a step failed has returned and process_receipt is
\* running for the next file
C2_Witness ==
    \E e, f \in Entries :
        /\ e # f
        /\ hist[e].status = "returned"
        /\ hist[e].failed \cap {"extract", "parse", "append", "moveP"} # {}
        /\ hist[f].status = "running"

\* ------------------------------------------------------------------------
\* C3
\* ------------------------------------------------------------------------

\* C3 as claimed: when process_receipt begins for a file that was not in
\* Incoming at process start, every accepted file that was in Incoming at
\* process start has already been committed to Processed or Error.
C3_StartFilesFirst ==
    [][\A e \in Entries :
          (Begins(e) /\ e \notin atStart) =>
              \A s \in atStart : StartupAccepts(s) => hist[s].commit # "none"]_vars

\* C3 amended: when process_receipt begins for a file that is not in the
\* startup listing of line 118 (a file dropped after the listing was
\* taken), every file of the listing has already been committed to
\* Processed or Error.  A file dropped after process start and before the
\* listing is part of the listing and may be processed before a file that
\* was there at process start.
C3_ListedFilesFirst ==
    [][\A e \in Entries :
          (Begins(e) /\ mainpc # "list" /\ e \notin Listed) =>
              \A s \in Listed : hist[s].commit # "none"]_vars

\* the listing was not empty and process_receipt has begun for a file that
\* is not in it
C3_Witness ==
    \E e, s \in Entries :
        /\ mainpc # "list"
        /\ s \in Listed
        /\ e \notin Listed
        /\ hist[e].attempts > 0

\* ------------------------------------------------------------------------
\* C4
\* ------------------------------------------------------------------------

\* C4 as claimed, under FairSpec: every accepted file that is in Incoming is
\* eventually handed to process_receipt, unless the interrupt arrives.  (The
\* runs in which a call raised are set aside as well, so that what refutes
\* the claim is a run in which every call returned.)
C4_NoFileSkipped ==
    \A e \in Entries :
        [](  (loc[e] = IN_FOLDER /\ WatcherAccepts(e))
          => <>(\/ hist[e].attempts > 0
                \/ interrupted
                \/ mainpc = "crashed"
                \/ observer = "dead"))

\* ------------------------------------------------------------------------
\* C5
\* ------------------------------------------------------------------------

\* C5: at most one thread is inside process_receipt at any time, and every
\* growth of the sink is one batch holding all the rows of the one call
\* that is in flight, so the rows of two files are never interleaved.
C5_OneInFlight ==
    [][/\ Cardinality(InFlight') <= 1
       /\ sink' # sink =>
            \E t \in Threads :
                /\ InFlight = {t}
                /\ sink' = Append(sink, [file |-> call[t].file, rows |-> call[t].rows])
                /\ \A i \in DOMAIN sink : sink[i].file # call[t].file]_vars

\* the rows of a first file are in the sink and the call for a second file,
\* dropped while the observer was running, is about to append its rows
C5_Witness ==
    /\ sink # <<>>
    /\ call["obs"].step = "append"
    /\ \A i \in DOMAIN sink : sink[i].file # call["obs"].file

\* ------------------------------------------------------------------------
\* C6
\* ------------------------------------------------------------------------

\* C6 as claimed, for the calls that returned: if extraction, projection
\* and append all succeeded the file is committed to Processed; if one of
\* them failed the file is committed to Error; when the extraction call
\* threw, no row was appended.
C6_CommitRule ==
    \A e \in Entries :
        hist[e].status = "returned" =>
            /\ ~StepFailed(e) => hist[e].commit = PROCESSED_FOLDER
            /\ StepFailed(e) => hist[e].commit = ERROR_FOLDER
            /\ "extract" \in hist[e].failed => BatchesOf(e) = <<>>

\* C6 amended: if extraction, projection, append and the move to Processed
\* all succeed, the file is committed to Processed; if extraction,
\* projection or append fails, the file is never committed to Processed
\* and, whenever the call returns, it is committed to Error; a failed move
\* to Processed sends the file to the handler as well; the call ends
\* without a commit only by raising from a failed move to Error; when the
\* extraction call throws, no row is appended.
C6_CommitRuleWithMoves ==
    \A e \in Entries :
        /\ (hist[e].status = "returned" /\ hist[e].failed = {}) =>
              hist[e].commit = PROCESSED_FOLDER
        /\ (StepFailed(e) \/ "moveP" \in hist[e].failed) =>
              hist[e].commit # PROCESSED_FOLDER
        /\ (hist[e].status = "returned" /\ hist[e].failed # {}) =>
              hist[e].commit = ERROR_FOLDER
        /\ hist[e].status = "raised" =>
              hist[e].commit = "none" /\ "moveE" \in hist[e].failed
        /\ "extract" \in hist[e].failed => BatchesOf(e) = <<>>

\* the append failed and the file was committed to Error
C6_Witness ==
    \E e \in Entries :
        /\ "append" \in hist[e].failed
        /\ hist[e].commit = ERROR_FOLDER
        /\ loc[e] = ERROR_FOLDER

\* ------------------------------------------------------------------------
\* C7
\* ------------------------------------------------------------------------

\* the items of the document extracted for e (the default [] when absent)
ItemsOf(e) == Iterate(DictGet(DocOf(e), "items", EmptyList).value).value

\* the rows the sink holds for e, over all its batches
RECURSIVE RowsIn(_)
RowsIn(batches) ==
    IF batches = <<>> THEN <<>>
    ELSE Head(batches).rows \o RowsIn(Tail(batches))

\* C7: a file committed to Processed whose document has N items has exactly
\* N rows in the sink, appended by one call when N > 0 and by none when
\* N = 0, and the cells date, store and total_receipt_cost (1, 2 and 8) are
\* the same in all its rows.
C7_RowConservation ==
    \A e \in Entries :
        hist[e].commit = PROCESSED_FOLDER =>
            LET batches == BatchesOf(e)
                rows == RowsIn(batches)
                n == Len(ItemsOf(e)) IN
            /\ HasDoc(e)
            /\ Len(rows) = n
            /\ Len(batches) = IF n > 0 THEN 1 ELSE 0
            /\ \A i \in DOMAIN rows :
                  \A c \in {1, 2, 8} : rows[i][c] = rows[1][c]

\* a file with two items was committed to Processed with its two rows
C7_Witness ==
    \E e \in Entries :
        /\ hist[e].commit = PROCESSED_FOLDER
        /\ HasDoc(e)
        /\ Len(ItemsOf(e)) = 2
        /\ Len(RowsIn(BatchesOf(e))) = 2

\* ------------------------------------------------------------------------
\* C8
\* ------------------------------------------------------------------------

\* the response text is not JSON, or its value is not an object
NotAnObject(r) ==
    \/ ~Responses[r].valid
    \/ Responses[r].value.type # "object"

\* the response does not have the expected shape: an object with
\* receipt_metadata and an items array
Malformed(r) ==
    \/ NotAnObject(r)
    \/ "receipt_metadata" \notin DOMAIN Responses[r].value.members
    \/ "items" \notin DOMAIN Responses[r].value.members
    \/ Responses[r].value.members["items"].type # "array"

\* C8 as claimed, for the calls that returned: a file whose response does
\* not have the expected shape is committed to Error and no row of it is
\* appended.
C8_MalformedQuarantined ==
    \A e \in Entries :
        (hist[e].status = "returned" /\ hist[e].resp # 0 /\ Malformed(hist[e].resp)) =>
            /\ hist[e].commit = ERROR_FOLDER
            /\ BatchesOf(e) = <<>>

\* C8 amended: a file whose response is not JSON, or is a JSON value that
\* is not an object, is never committed to Processed, has no row appended,
\* and is committed to Error whenever the call returns.  (An object that
\* lacks receipt_metadata or items is not quarantined: the missing key
\* takes its default, {} or [].)
C8_NotAnObjectQuarantined ==
    \A e \in Entries :
        (hist[e].resp # 0 /\ NotAnObject(hist[e].resp)) =>
            /\ hist[e].commit # PROCESSED_FOLDER
            /\ BatchesOf(e) = <<>>
            /\ call["main"].rows = <<>> \/ call["main"].file # e
            /\ call["obs"].rows = <<>> \/ call["obs"].file # e
            /\ hist[e].status = "returned" => hist[e].commit = ERROR_FOLDER

\* a response that is not an object was received and the file committed to
\* Error
C8_Witness ==
    \E e \in Entries :
        /\ hist[e].resp # 0
        /\ NotAnObject(hist[e].resp)
        /\ hist[e].commit = ERROR_FOLDER
        /\ loc[e] = ERROR_FOLDER

\* ------------------------------------------------------------------------
\* C9
\* ------------------------------------------------------------------------

\* the response has the expected shape and its items array is empty
EmptyItems(r) ==
    /\ ~Malformed(r)
    /\ Responses[r].value.members["items"].elems = <<>>

\* C9 as claimed, for the calls that returned: a file whose response is
\* valid with an empty items array has no append call and is committed to
\* Processed.
C9_EmptyItemsProcessed ==
    \A e \in Entries :
        (hist[e].status = "returned" /\ hist[e].resp # 0 /\ EmptyItems(hist[e].resp)) =>
            /\ BatchesOf(e) = <<>>
            /\ hist[e].commit = PROCESSED_FOLDER

\* C9 amended: a valid response with an empty items array leads to no
\* append call at all (none that succeeds, none that fails) and, when the
\* move to Processed succeeds, to the file being committed to Processed;
\* the file is committed to Error only when the move to Processed failed.
C9_EmptyItemsNoAppend ==
    \A e \in Entries :
        (hist[e].resp # 0 /\ EmptyItems(hist[e].resp)) =>
            /\ BatchesOf(e) = <<>>
            /\ "append" \notin hist[e].failed
            /\ \A t \in Threads : call[t].file = e => call[t].step # "append"
            /\ (hist[e].status = "returned" /\ "moveP" \notin hist[e].failed) =>
                  hist[e].commit = PROCESSED_FOLDER
            /\ hist[e].commit = ERROR_FOLDER => "moveP" \in hist[e].failed

\* a file with an empty items array was committed to Processed
C9_Witness ==
    \E e \in Entries :
        /\ hist[e].resp # 0
        /\ EmptyItems(hist[e].resp)
        /\ hist[e].commit = PROCESSED_FOLDER
        /\ loc[e] = PROCESSED_FOLDER

\* ------------------------------------------------------------------------
\* C10
\* ------------------------------------------------------------------------

\* C10 as claimed: after the interrupt no process_receipt call begins, no
\* call is cut short by the interrupt, and when the process has exited no
\* call is left unfinished.
C10_Cancellation ==
    [][/\ interrupted => \A e \in Entries : ~Begins(e)
       /\ \A e \in Entries : hist'[e].status # "aborted"
       /\ mainpc' \in {"exit", "killed"} =>
             \A e \in Entries : hist'[e].status # "running"]_vars

\* ------------------------------------------------------------------------
\* C11
\* ------------------------------------------------------------------------

\* the entries for which a creation event is waiting or being handled
Pending ==
    {event_queue[i] : i \in DOMAIN event_queue}
        \cup (IF call["obs"].step = "idle" THEN {} ELSE {call["obs"].file})

\* C11: process_receipt is started at most once for a file and at most one
\* append_rows call is made for it; a call that is over, committed or
\* failed, is not running again in any thread; and no creation event is
\* waiting or being handled for a file of the startup listing.
C11_AtMostOnce ==
    /\ \A e \in Entries : hist[e].attempts <= 1
    /\ \A i, j \in DOMAIN sink : sink[i].file = sink[j].file => i = j
    /\ \A t \in Threads :
          call[t].step # "idle" =>
              /\ ~Finished(call[t].file)
              /\ hist[call[t].file].commit = "none"
    /\ Listed \cap Pending = {}

\* a file of the startup listing failed and was quarantined, a file dropped
\* later was processed with its rows appended, and the watcher is idle
C11_Witness ==
    \E e, f \in Entries :
        /\ e \in Listed
        /\ hist[e].commit = ERROR_FOLDER
        /\ hist[e].failed # {}
        /\ f \notin Listed
        /\ hist[f].commit = PROCESSED_FOLDER
        /\ Len(BatchesOf(f)) = 1
        /\ call["obs"].step = "idle"
        /\ event_queue = <<>>

\* ------------------------------------------------------------------------
\* C12
\* ------------------------------------------------------------------------

\* C12: when process_receipt begins for a file B that is not in the startup
\* listing, every file of the listing has been committed to Processed or
\* Error, and so has every accepted file whose creation event was observed
\* before the one of B.
C12_CreationOrder ==
    [][\A b \in Entries :
          (Begins(b) /\ b \notin Listed) =>
              /\ \A s \in Listed : hist[s].commit # "none"
              /\ \A i, j \in DOMAIN created :
                    (i < j /\ created[j] = b /\ WatcherAccepts(created[i])) =>
                        hist[created[i]].commit # "none"]_vars

\* the creation events of two accepted files were observed, the first file
\* is committed and process_receipt has begun for the second
C12_Witness ==
    /\ Len(created) >= 2
    /\ WatcherAccepts(created[1])
    /\ hist[created[1]].commit # "none"
    /\ hist[created[2]].attempts > 0

\* ------------------------------------------------------------------------
\* C13
\* ------------------------------------------------------------------------

\* C13 as claimed: a file changes place only by being dropped into Incoming
\* by the external actor or by being moved by the pipeline from Incoming to
\* Processed or from Incoming to Error; no step takes a file into Incoming
\* from a pipeline directory, out of Processed or out of Error.
C13_OnlyTwoTransitions ==
    [][\A e \in Entries :
          loc'[e] # loc[e] =>
              \/ loc[e] = Outside /\ loc'[e] = IN_FOLDER /\ call' = call
              \/ loc[e] = IN_FOLDER /\ loc'[e] \in {PROCESSED_FOLDER, ERROR_FOLDER}]_vars

\* ------------------------------------------------------------------------
\* C14
\* ------------------------------------------------------------------------

\* C14 as claimed: no file is ever destroyed, and a file that was committed
\* to Processed or Error is still in that directory in every later state,
\* whatever is dropped and processed afterwards.
C14_NeverDestroyed ==
    \A e \in Entries :
        /\ loc[e] # Gone
        /\ hist[e].commit # "none" => loc[e] = hist[e].commit

\* ------------------------------------------------------------------------
\* C15
\* ------------------------------------------------------------------------

\* the metadata of the document extracted for e (the default {} when absent)
MetaOf(e) == DictGet(DocOf(e), "receipt_metadata", EmptyDict).value

\* the member of an object, the default when the object has no such member
Member(d, key, default) ==
    IF key \in DOMAIN d.members THEN d.members[key] ELSE default

\* the value of a field of an object, "" when the object has no such field
Field(d, key) == IF key \in DOMAIN d.members THEN d.members[key] ELSE JStr("")

\* the response is a parseable object whose metadata, when there, is an
\* object and whose items, when there, are an array of objects; any of
\* their fields may be missing
Tolerated(r) ==
    /\ ~NotAnObject(r)
    /\ LET doc == Responses[r].value.members IN
       /\ "receipt_metadata" \in DOMAIN doc => doc["receipt_metadata"].type = "object"
       /\ "items" \in DOMAIN doc =>
             /\ doc["items"].type = "array"
             /\ \A i \in DOMAIN doc["items"].elems :
                   doc["items"].elems[i].type = "object"

\* a field of the metadata or of an item of the document of e is missing
FieldsMissing(e) ==
    \/ "date" \notin DOMAIN MetaOf(e).members
    \/ \E i \in DOMAIN ItemsOf(e) : "category" \notin DOMAIN ItemsOf(e)[i].members

\* C15 as claimed, for the calls that returned: a file whose response is a
\* parseable object with fields missing is committed to Processed and has
\* one row per item in the sink.
C15_MissingFieldsProcessed ==
    \A e \in Entries :
        (hist[e].status = "returned" /\ hist[e].resp # 0 /\ Tolerated(hist[e].resp)) =>
            /\ hist[e].commit = PROCESSED_FOLDER
            /\ Len(RowsIn(BatchesOf(e))) = Len(ItemsOf(e))

\* the responses of that shape
ToleratedIds == {r \in ResponseIds : Tolerated(r)}

\* the rows of a tolerated response with the defaults substituted: one row
\* per item, each cell the value of its field, "" when the field is missing
DefaultedRows ==
    [r \in ResponseIds |->
        IF ~Tolerated(r) THEN <<>>
        ELSE LET doc == Responses[r].value
                 meta == Member(doc, "receipt_metadata", JObj(<<>>))
                 items == Member(doc, "items", JArr(<<>>)).elems IN
             [i \in DOMAIN items |->
                [c \in DOMAIN RowFields |->
                    Field(IF RowFields[c][1] THEN meta ELSE items[i],
                          RowFields[c][2])]]]

\* C15 amended: for a parseable object with fields missing the parse and
\* the projection never fail: in every row built for the file, in flight
\* or appended, the cell of a missing field is the empty string and the
\* cell of a present field is its value unchanged (a null
\* calories_per_100g included), one row per item; the file is committed to
\* Processed with these rows appended when the append and the move to
\* Processed succeed, and it is committed to Error only when one of the
\* two failed.
C15_MissingFieldsTolerated ==
    \A e \in Entries :
        hist[e].resp \in ToleratedIds =>
            LET rows == DefaultedRows[hist[e].resp] IN
            /\ "parse" \notin hist[e].failed
            /\ \A t \in Threads :
                  (call[t].file = e /\ call[t].step \in {"append", "move"}) =>
                      call[t].rows = rows
            /\ \A i \in DOMAIN sink : sink[i].file = e => sink[i].rows = rows
            /\ (hist[e].status = "returned"
                  /\ hist[e].failed \cap {"append", "moveP"} = {}) =>
                  /\ hist[e].commit = PROCESSED_FOLDER
                  /\ rows # <<>> => \E i \in DOMAIN sink : sink[i].file = e
            /\ hist[e].commit = ERROR_FOLDER =>
                  hist[e].failed \cap {"append", "moveP"} # {}

\* a file whose response lacks fields was committed to Processed, with a
\* row that holds the empty string for a missing field and null for the
\* calories
C15_Witness ==
    \E e \in Entries :
        /\ hist[e].resp # 0
        /\ Tolerated(hist[e].resp)
        /\ FieldsMissing(e)
        /\ hist[e].commit = PROCESSED_FOLDER
        /\ \E i \in DOMAIN sink :
              /\ sink[i].file = e
              /\ \E j \in DOMAIN sink[i].rows :
                    /\ sink[i].rows[j][4] = JStr("")
                    /\ sink[i].rows[j][5] = JNull

\* ------------------------------------------------------------------------
\* C16
\* ------------------------------------------------------------------------

\* the row of one item: the eight fields in the order of the sheet's columns
ExpectedRow(meta, item) ==
    << Field(meta, "date"),
       Field(meta, "store"),
       Field(item, "product_name"),
       Field(item, "category"),
       Field(item, "calories_per_100g"),
       Field(item, "quantity_or_weight"),
       Field(item, "item_total_price"),
       Field(meta, "total_receipt_cost") >>

\* the rows expected for each response: one 8-tuple per item, in order
ExpectedRows ==
    [r \in ResponseIds |->
        IF ~Tolerated(r) THEN <<>>
        ELSE LET doc == Responses[r].value
                 meta == Member(doc, "receipt_metadata", JObj(<<>>))
                 items == Member(doc, "items", JArr(<<>>)).elems IN
             [i \in DOMAIN items |-> ExpectedRow(meta, items[i])]]

\* C16: every batch appended for a file holds exactly one row per item of
\* the extracted document, the i-th row being the 8-tuple (date, store,
\* product_name, category, calories_per_100g, quantity_or_weight,
\* item_total_price, total_receipt_cost) of the i-th item and the shared
\* metadata: no row dropped, duplicated or reordered.
C16_Projection ==
    \A b \in DOMAIN sink :
        /\ HasDoc(sink[b].file)
        /\ sink[b].rows # <<>>
        /\ sink[b].rows = ExpectedRows[hist[sink[b].file].resp]

\* the rows of a receipt with two different items are in the sink
C16_Witness ==
    \E b \in DOMAIN sink :
        /\ Len(sink[b].rows) = 2
        /\ sink[b].rows[1] # sink[b].rows[2]
        /\ sink[b].rows[1][3] = JStr("Mjolk")

\* ------------------------------------------------------------------------
\* C17
\* ------------------------------------------------------------------------

\* C17 as claimed: the startup listing holds an entry, and process_receipt
\* is called for an entry, only if on_created would hand that entry to
\* process_receipt; and an entry on_created would not hand over is never
\* moved: it is in Incoming whenever it is not outside.
C17_SameFilter ==
    \A e \in Entries :
        /\ (e \in Listed \/ hist[e].attempts > 0) => WatcherAccepts(e)
        /\ ~WatcherAccepts(e) => loc[e] \in {Outside, IN_FOLDER}

\* ------------------------------------------------------------------------
\* C18
\* ------------------------------------------------------------------------

\* C18 as claimed: the order in which the startup loop is fed is a function
\* of the contents of Incoming: the list the listing step produces is the
\* only list it can produce for the files that are in Incoming.
C18_StableOrder ==
    [][(mainpc = "list" /\ mainpc' = "loop") =>
          \A q \in Listings : q = existing_pdfs']_vars

\* ------------------------------------------------------------------------
\* C19
\* ------------------------------------------------------------------------

\* C19: when the move to Error has failed for a file, the call has ended by
\* raising to its caller (the main thread is terminated, or the observer
\* thread is ended), the file has no commit and is still in Incoming,
\* process_receipt was started once for it and no thread is in a call for
\* it any more: the move is not tried again.
C19_QuarantineMoveFails ==
    \A e \in Entries :
        "moveE" \in hist[e].failed =>
            /\ hist[e].status = "raised"
            /\ mainpc = "crashed" \/ observer = "dead"
            /\ hist[e].commit = "none"
            /\ loc[e] = IN_FOLDER
            /\ hist[e].attempts = 1
            /\ \A t \in Threads : call[t].file # e

\* the append failed for a file dropped while the observer was running and
\* then the move to Error failed
C19_Witness ==
    \E e \in Entries :
        /\ hist[e].failed = {"append", "moveE"}
        /\ hist[e].status = "raised"
        /\ observer = "dead"
        /\ loc[e] = IN_FOLDER

\* ------------------------------------------------------------------------
\* C20
\* ------------------------------------------------------------------------

\* C20 as claimed: a file that is in Error has no row in the sink, and a
\* file that is in Processed has exactly one row per item of its document
\* in the sink, whatever step failed.
C20_QuarantineWroteNothing ==
    \A e \in Entries :
        /\ loc[e] = ERROR_FOLDER => RowsIn(BatchesOf(e)) = <<>>
        /\ loc[e] = PROCESSED_FOLDER =>
              /\ HasDoc(e)
              /\ Len(RowsIn(BatchesOf(e))) = Len(ItemsOf(e))

====
